---- MODULE Spec2Model ----
(***************************************************************************)
(* A model of zybookgrader (src/zybookgrader/main.py): the pipeline that   *)
(* _main runs over the parsed command line, read -> summarize / clean up   *)
(* -> deductpoints -> finalgrade, and the table transforms it is made of.  *)
(*                                                                         *)
(* Representation.                                                         *)
(*  - A column name is the sequence of its space-separated words; after   *)
(*    the loaders' rename the words are lower case and joined by "_".      *)
(*  - A data frame is [cols, tcols, rows]: cols is the sequence of value    *)
(*    columns (df.columns without the identity and temporal columns),      *)
(*    tcols the set of temporal columns present (day, due_date,            *)
(*    days_late), rows the sequence of rows in frame order.  A row is      *)
(*    [key, vals] plus one field per temporal column.  A missing cell      *)
(*    (NaN) is a column outside DOMAIN vals, or a field outside DOMAIN key.*)
(*  - A number is a double, [neg, m, e]: the value (-1)^neg * m * 2^e with  *)
(*    m odd and below 2^53, kept as a sequence of limbs; zero has m = <<>>.*)
(*    The arithmetic rounds to nearest, ties to even, as the code's does.  *)
(*    A cell of a CSV file is a decimal with two places, given as the      *)
(*    integer of its hundredths.                                           *)
(*  - A timestamp is [ticks, aware]: a number of ticks (TicksPerDay ticks  *)
(*    a day), in UTC when aware, on the wall clock of the file name when   *)
(*    not.                                                                 *)
(***************************************************************************)
EXTENDS Integers, Sequences, FiniteSets, TLC

VARIABLES
    args,            \* the parsed command line: reports_fp, assignment_fp, threshold, penalty
    pc,              \* where _main is
    tmp,             \* the frames readonereport returned (readmanyreports' tmp)
    df_hw,           \* the frame readassignment returned, when a roster is given
    df,              \* _main's df
    prev,            \* the frame the last transform of df was applied to
    output,          \* the file args.output
    output_summary,  \* the file args.output_summary
    error            \* the exception that ended the run, "" when none

vars == <<args, pc, tmp, df_hw, df, prev, output, output_summary, error>>

(***************************************************************************)
(* Bounds of the model.                                                    *)
(***************************************************************************)
MaxReports == 2

TicksPerDay == 2

(***************************************************************************)
(* Constants of the program.                                               *)
(***************************************************************************)
KEY_COLS == <<"last_name", "first_name", "primary_email", "school_email", "student_id">>

DROP_SUFFIX == "_drop"

DEFAULT_THRESHOLD == 70
NO_THRESHOLD == 100
DEFAULT_PENALTY == 20

Range(s) == {s[i] : i \in DOMAIN s}

None == <<>>

Restrict(f, S) == [x \in (DOMAIN f) \cap S |-> f[x]]

(***************************************************************************)
(* Floating point: the doubles of Python and numpy.  Infinities, NaN, the  *)
(* sign of zero and the limits of the exponent are left out: no value of   *)
(* the model comes near them.                                              *)
(***************************************************************************)
\* A natural number of any size is the sequence of its digits in base Limb,
\* the lowest first and the highest not 0; <<>> is 0
LimbBits == 15

Limb == 2^LimbBits

\* The bits of the significand of a double
Precision == 53

Max(a, b) == IF a >= b THEN a ELSE b
Min(a, b) == IF a <= b THEN a ELSE b

BLimb(a, i) == IF i \in DOMAIN a THEN a[i] ELSE 0

RECURSIVE BTrim(_)
BTrim(a) ==
    IF a = <<>> THEN a
    ELSE IF a[Len(a)] # 0 THEN a
    ELSE BTrim(SubSeq(a, 1, Len(a) - 1))

RECURSIVE BNat(_)
BNat(n) == IF n = 0 THEN <<>> ELSE <<n % Limb>> \o BNat(n \div Limb)

BAdd(a, b) ==
    LET n == Max(Len(a), Len(b))
        c[i \in 0..n] ==
            IF i = 0 THEN 0 ELSE (BLimb(a, i) + BLimb(b, i) + c[i - 1]) \div Limb
    IN  BTrim([i \in 1..(n + 1) |-> (BLimb(a, i) + BLimb(b, i) + c[i - 1]) % Limb])

BSub(a, b) ==
    LET n == Len(a)
        br[i \in 0..n] ==
            IF i = 0 THEN 0
            ELSE IF a[i] - BLimb(b, i) - br[i - 1] < 0 THEN 1 ELSE 0
    IN  BTrim([i \in 1..n |-> (a[i] - BLimb(b, i) - br[i - 1] + Limb) % Limb])

BMulSmall(a, k) ==
    LET n == Len(a)
        c[i \in 0..n] == IF i = 0 THEN 0 ELSE (a[i] * k + c[i - 1]) \div Limb
    IN  BTrim([i \in 1..(n + 1) |-> (BLimb(a, i) * k + c[i - 1]) % Limb])

BShlLimbs(a, q) == IF a = <<>> THEN a ELSE [i \in 1..q |-> 0] \o a

RECURSIVE BMulFrom(_, _, _)
BMulFrom(a, b, j) ==
    IF j > Len(b) THEN <<>>
    ELSE BAdd(BShlLimbs(BMulSmall(a, b[j]), j - 1), BMulFrom(a, b, j + 1))

BMul(a, b) == BMulFrom(a, b, 1)

BShl(a, s) == BShlLimbs(BMulSmall(a, 2^(s % LimbBits)), s \div LimbBits)

BShr(a, s) ==
    LET q == s \div LimbBits
        r == s % LimbBits
        n == Len(a) - q
    IN  IF n <= 0 THEN <<>>
        ELSE BTrim([i \in 1..n |->
                (a[q + i] \div 2^r) + (BLimb(a, q + i + 1) % 2^r) * 2^(LimbBits - r)])

BLowZero(a, s) ==
    /\ \A i \in 1..Len(a) : i <= s \div LimbBits => a[i] = 0
    /\ BLimb(a, s \div LimbBits + 1) % 2^(s % LimbBits) = 0

BBit(a, i) == (BLimb(a, i \div LimbBits + 1) \div 2^(i % LimbBits)) % 2

BBits(a) ==
    IF a = <<>> THEN 0
    ELSE LimbBits * (Len(a) - 1)
           + (CHOOSE n \in 1..LimbBits : 2^(n - 1) <= a[Len(a)] /\ a[Len(a)] < 2^n)

BCmp(a, b) ==
    IF Len(a) # Len(b) THEN (IF Len(a) < Len(b) THEN 0 - 1 ELSE 1)
    ELSE LET D == {i \in 1..Len(a) : a[i] # b[i]}
         IN  IF D = {} THEN 0
             ELSE LET i == CHOOSE i \in D : \A j \in D : j <= i
                  IN  IF a[i] < b[i] THEN 0 - 1 ELSE 1

BTrailing(a) ==
    LET q == CHOOSE i \in 1..Len(a) : a[i] # 0 /\ \A j \in 1..(i - 1) : a[j] = 0
        r == CHOOSE r \in 0..(LimbBits - 1) : a[q] % 2^(r + 1) # 0 /\ a[q] % 2^r = 0
    IN  LimbBits * (q - 1) + r

\* A digit of the long division: the largest d with d * b <= cur, for b with
\* its top bit set and cur < b * Limb; the estimate from the top limbs is at
\* most 2 above it
BDigit(cur, b) ==
    LET n == Len(b)
        qhat == Min(Limb - 1, (BLimb(cur, n + 1) * Limb + BLimb(cur, n)) \div b[n])
    IN  CHOOSE d \in {Max(0, qhat - 2), Max(0, qhat - 1), qhat} :
            /\ BCmp(BMulSmall(b, d), cur) <= 0
            /\ BCmp(BAdd(BMulSmall(b, d), b), cur) > 0

RECURSIVE BLongDiv(_, _, _, _, _)
BLongDiv(a, b, i, q, r) ==
    IF i = 0 THEN [q |-> BTrim(q), r |-> r]
    ELSE LET cur == BAdd(BShlLimbs(r, 1), IF a[i] = 0 THEN <<>> ELSE <<a[i]>>)
             d == BDigit(cur, b)
         IN  BLongDiv(a, b, i - 1, <<d>> \o q, BSub(cur, BMulSmall(b, d)))

\* Quotient and remainder of a by b # 0
BDivMod(a, b) ==
    IF Len(b) = 1
    THEN LET n == Len(a)
             k == b[1]
             r[i \in 1..(n + 1)] ==
                 IF i = n + 1 THEN 0 ELSE (r[i + 1] * Limb + a[i]) % k
         IN  [q |-> BTrim([i \in 1..n |-> (r[i + 1] * Limb + a[i]) \div k]),
              r |-> BNat(r[1])]
    ELSE LET sh == LimbBits * Len(b) - BBits(b)
             d == BLongDiv(BShl(a, sh), BShl(b, sh), Len(BShl(a, sh)), <<>>, <<>>)
         IN  [q |-> d.q, r |-> BShr(d.r, sh)]

Zero == [neg |-> FALSE, m |-> <<>>, e |-> 0]

canon(neg, M, E) ==
    IF M = <<>> THEN Zero
    ELSE LET tz == BTrailing(M)
         IN  [neg |-> neg, m |-> BShr(M, tz), e |-> E + tz]

nearest(neg, M, E, sticky) ==
    LET L == BBits(M)
    IN  IF L <= Precision THEN canon(neg, M, E)
        ELSE LET sh == L - Precision
                 Q == BShr(M, sh)
                 half == BBit(M, sh - 1) = 1
                 rest == sticky \/ ~BLowZero(M, sh - 1)
                 up == half /\ (rest \/ BBit(Q, 0) = 1)
             IN  canon(neg, IF up THEN BAdd(Q, <<1>>) ELSE Q, E + sh)

float(n) == canon(n < 0, BNat(IF n < 0 THEN 0 - n ELSE n), 0)

fneg(x) == IF x.m = <<>> THEN x ELSE [x EXCEPT !.neg = ~@]

fadd(x, y) ==
    IF x.m = <<>> THEN y
    ELSE IF y.m = <<>> THEN x
    ELSE LET e == Min(x.e, y.e)
             A == BShl(x.m, x.e - e)
             B == BShl(y.m, y.e - e)
             c == BCmp(A, B)
         IN  IF x.neg = y.neg THEN nearest(x.neg, BAdd(A, B), e, FALSE)
             ELSE IF c = 0 THEN Zero
             ELSE IF c > 0 THEN nearest(x.neg, BSub(A, B), e, FALSE)
             ELSE nearest(y.neg, BSub(B, A), e, FALSE)

fsub(x, y) == fadd(x, fneg(y))

fmul(x, y) == nearest(x.neg # y.neg, BMul(x.m, y.m), x.e + y.e, FALSE)

fdiv(x, y) ==
    IF x.m = <<>> THEN Zero
    ELSE LET s == Max(0, BBits(y.m) + Precision + 2 - BBits(x.m))
             d == BDivMod(BShl(x.m, s), y.m)
         IN  nearest(x.neg # y.neg, d.q, x.e - y.e - s, d.r # <<>>)

flt(x, y) == fsub(x, y).neg

fge(x, y) == ~flt(x, y)

rint(x) ==
    IF x.e >= 0 THEN x
    ELSE LET sh == 0 - x.e
             Q == BShr(x.m, sh)
             half == BBit(x.m, sh - 1) = 1
             rest == ~BLowZero(x.m, sh - 1)
             up == half /\ (rest \/ BBit(Q, 0) = 1)
         IN  canon(x.neg, IF up THEN BAdd(Q, <<1>>) ELSE Q, 0)

(***************************************************************************)
(* Column names and the patterns the code matches them with.               *)
(***************************************************************************)
\* str.lower on the words of the model that have an upper-case letter; every
\* other word of the model is in lower case already and is its own image
LOWER == [HW1 |-> "hw1", HW2 |-> "hw2", HW3 |-> "hw3", Lab |-> "lab",
          Total |-> "total", Percent |-> "percent", Points |-> "points"]

lower(w) == IF w \in DOMAIN LOWER THEN LOWER[w] ELSE w

\* .rename(columns=str.lower).rename(columns=lambda k: k.replace(" ", "_"))
rename(name) == [i \in 1..Len(name) |-> lower(name[i])]

PtsRange == 0..20

PtsWord(n) == "(" \o ToString(n) \o ")"

\* re.search(PAT_POINTS, name): the name ends with a parenthesised integer
PAT_POINTS(name) ==
    /\ Len(name) > 0
    /\ \E n \in PtsRange : name[Len(name)] = PtsWord(n)

matchpointstotal(name) == CHOOSE n \in PtsRange : name[Len(name)] = PtsWord(n)

\* df.columns.str.contains("total")
containstotal(name) == \E i \in 1..Len(name) : name[i] = "total"

\* re.match('^points_earned', name), re.match('^percent_grade', name),
\* re.match('total_', name)
matchpointsearned(name) == Len(name) >= 2 /\ name[1] = "points" /\ name[2] = "earned"

matchpercentgrade(name) == Len(name) >= 2 /\ name[1] = "percent" /\ name[2] = "grade"

matchtotal_(name) == Len(name) >= 2 /\ name[1] = "total"

\* find: the first element of seq that matches, None when there is none;
\* matching is the set of the elements the pattern matches
find(seq, matching) ==
    IF \E i \in 1..Len(seq) : seq[i] \in matching
    THEN seq[CHOOSE i \in 1..Len(seq) :
                 seq[i] \in matching /\ \A j \in 1..(i - 1) : seq[j] \notin matching]
    ELSE None

(***************************************************************************)
(* Frames.                                                                 *)
(***************************************************************************)
\* The frame without the columns outside the set keep
SelectCols(frame, keep) ==
    LET kept == SelectSeq(frame.cols, LAMBDA c : c \in keep)
    IN  [frame EXCEPT
           !.cols = kept,
           !.rows = [i \in 1..Len(frame.rows) |->
                       [frame.rows[i] EXCEPT !.vals = Restrict(@, Range(kept))]]]

\* The frame with the rows newrows, a sequence as long as frame.rows
MapRows(frame, newrows) == [frame EXCEPT !.rows = newrows]

droptotals(frame) == SelectCols(frame, {c \in Range(frame.cols) : ~containstotal(c)})

dropmisc(frame) ==
    LET to_drop == {find(frame.cols, {c \in Range(frame.cols) : matchpointsearned(c)}),
                    find(frame.cols, {c \in Range(frame.cols) : matchpercentgrade(c)})}
    IN  SelectCols(frame, Range(frame.cols) \ to_drop)

\* (pts * s / 100).round() of the cell s of column name; numpy rounds to the
\* nearest integer, a half to the even neighbour
_topoints(name, s) == rint(fdiv(fmul(float(matchpointstotal(name)), s), float(100)))

topoints(frame) ==
    MapRows(frame, [i \in 1..Len(frame.rows) |->
        [frame.rows[i] EXCEPT !.vals = [c \in DOMAIN @ |->
            IF PAT_POINTS(c) THEN _topoints(c, @[c]) ELSE @[c]]]])

fillnasafe(frame) ==
    MapRows(frame, [i \in 1..Len(frame.rows) |->
        [frame.rows[i] EXCEPT
           !.vals = [c \in Range(frame.cols) |-> IF c \in DOMAIN @ THEN @[c] ELSE Zero],
           !.key = [k \in Range(KEY_COLS) |-> IF k \in DOMAIN @ THEN @[k] ELSE ""]]])

\* The double read_csv makes of a cell: the digits as a number, divided by
\* the power of ten of the decimal places
parsecell(hundredths) == fdiv(float(hundredths), float(100))

\* pandas.read_csv(...).rename(...).rename(...)
read_csv(file) ==
    [cols |-> [i \in 1..Len(file.cols) |-> rename(file.cols[i])],
     tcols |-> {},
     rows |-> [i \in 1..Len(file.rows) |->
                 [key |-> file.rows[i].key,
                  vals |-> [c \in {rename(r) : r \in DOMAIN file.rows[i].vals} |->
                              parsecell(file.rows[i].vals[CHOOSE r \in DOMAIN file.rows[i].vals :
                                                              rename(r) = c])]]]]

(***************************************************************************)
(* The loaders.                                                            *)
(***************************************************************************)
\* The zones dateutil knows, with their offset from UTC in ticks
ZONES == ("UTC" :> 0) @@ ("Etc/GMT+12" :> (0 - 1))

\* dateutil.tz.gettz(name): <<offset>>, None for a name it does not know
gettz(name) == IF name \in DOMAIN ZONES THEN <<ZONES[name]>> ELSE None

\* A file name is a record.  re.search(PAT_TS, s) matches it when it has the
\* field timestamp: the digits, <<ticks>> when they are a date and a time of
\* day and <<>> when they are not (a month 13); the field tz is the text of
\* the group tz, absent when the group did not match.
\* The result is [raised, ts]: the exception that ends the call, "" when
\* none, and the timestamp returned.  A name with a zone gives an instant in
\* UTC, a name without one a timestamp without zone.
matchdatefromfilename(name) ==
    IF "timestamp" \notin DOMAIN name THEN [raised |-> "SystemExit"]
    ELSE IF name.timestamp = <<>> THEN [raised |-> "ValueError"]
    ELSE IF "tz" \in DOMAIN name
         THEN IF gettz(name.tz) = None THEN [raised |-> "TypeError"]
              ELSE [raised |-> "",
                    ts |-> [ticks |-> name.timestamp[1] - gettz(name.tz)[1],
                            aware |-> TRUE]]
         ELSE [raised |-> "", ts |-> [ticks |-> name.timestamp[1], aware |-> FALSE]]

\* .assign(col=values): the temporal column col, values[i] in row i
assign(frame, col, values) ==
    [cols |-> frame.cols,
     tcols |-> frame.tcols \cup {col},
     rows |-> [i \in 1..Len(frame.rows) |->
                 [f \in DOMAIN frame.rows[i] \cup {col} |->
                     IF f = col THEN values[i] ELSE frame.rows[i][f]]]]

readonereport(fp) ==
    LET report_date == matchdatefromfilename(fp.name).ts
    IN  assign(fillnasafe(topoints(droptotals(read_csv(fp)))),
               "day", [i \in 1..Len(fp.rows) |-> report_date])

\* The due dates of the file carry an offset: tz_convert makes them
\* instants in UTC
readassignment(fp) ==
    LET frame == assign(read_csv(fp), "due_date",
                        [i \in 1..Len(fp.rows) |->
                            [ticks |-> fp.rows[i].due_date, aware |-> TRUE]])
    IN  fillnasafe(topoints(dropmisc(droptotals(frame))))

\* The order of Python strings on the strings of the model
STR_ORDER == <<"", "7", "ann", "ann@x", "bob", "bob@u", "doe", "roe">>

StrRank(s) == CHOOSE i \in 1..Len(STR_ORDER) : STR_ORDER[i] = s

\* The order of the index tuples: lexicographic in KEY_COLS
RECURSIVE KeyLessFrom(_, _, _)
KeyLessFrom(a, b, i) ==
    IF i > Len(KEY_COLS) THEN FALSE
    ELSE LET x == StrRank(a[KEY_COLS[i]])
             y == StrRank(b[KEY_COLS[i]])
         IN  x < y \/ (x = y /\ KeyLessFrom(a, b, i + 1))

KeyLess(a, b) == KeyLessFrom(a, b, 1)

\* pandas.concat: the rows of the frames in order, over the union of their
\* columns (a column a frame lacks is missing in that frame's rows)
RECURSIVE concat(_)
concat(frames) ==
    IF Len(frames) = 1 THEN frames[1]
    ELSE LET head == concat(SubSeq(frames, 1, Len(frames) - 1))
             last == frames[Len(frames)]
         IN  [cols |-> head.cols \o SelectSeq(last.cols, LAMBDA c : c \notin Range(head.cols)),
              tcols |-> head.tcols \cup last.tcols,
              rows |-> head.rows \o last.rows]

\* .set_index('day').sort_index(axis=0): the orders of the rows S that are
\* ascending in day.  The sort is not stable: rows of one instant come in the
\* order of the files or in any other, as the build's sort leaves them.
RECURSIVE DaySorts(_, _)
DaySorts(rows, S) ==
    IF S = {} THEN {<<>>}
    ELSE LET first == {i \in S : \A j \in S : rows[i].day.ticks <= rows[j].day.ticks}
         IN  UNION {{<<i>> \o t : t \in DaySorts(rows, S \ {i})} : i \in first}

Permute(frame, order) ==
    [frame EXCEPT !.rows = [i \in 1..Len(order) |-> frame.rows[order[i]]]]

\* readmanyreports, were it to leave the rows in the order of the files
readmanyreports_unsorted(fp_seq, order) ==
    concat([i \in 1..Len(fp_seq) |-> readonereport(fp_seq[i])])

readmanyreports(fp_seq, order) ==
    Permute(concat([i \in 1..Len(fp_seq) |-> readonereport(fp_seq[i])]), order)

ReportOrders(fp_seq) ==
    LET rows == concat([i \in 1..Len(fp_seq) |-> readonereport(fp_seq[i])]).rows
    IN  DaySorts(rows, 1..Len(rows))

(***************************************************************************)
(* The reconciler.                                                         *)
(***************************************************************************)
RECURSIVE SortKeys(_)
SortKeys(K) ==
    IF K = {} THEN <<>>
    ELSE LET least == CHOOSE k \in K : \A o \in K \ {k} : KeyLess(k, o)
         IN  <<least>> \o SortKeys(K \ {least})

RECURSIVE Flatten(_)
Flatten(ss) == IF ss = <<>> THEN <<>> ELSE Head(ss) \o Flatten(Tail(ss))

\* .sort_index() on the KEY_COLS index: ascending in the key, rows of one
\* key in the order they had (the sort of a MultiIndex is stable)
sort_index(frame) ==
    LET keys == SortKeys({frame.rows[i].key : i \in 1..Len(frame.rows)})
    IN  [frame EXCEPT !.rows =
            Flatten([k \in 1..Len(keys) |->
                        SelectSeq(frame.rows, LAMBDA row : row.key = keys[k])])]

\* The row before row i among the rows with its key, 0 when it is the first
PrevInGroup(rows, i) ==
    LET before == {j \in 1..(i - 1) : rows[j].key = rows[i].key}
    IN  IF before = {} THEN 0 ELSE CHOOSE j \in before : \A o \in before : o <= j

\* .groupby(by=df.index.names).diff().fillna(df): each value minus the value
\* of the previous row of the same key, the first row of a key as it is
groupdiff(frame) ==
    [frame EXCEPT !.rows = [i \in 1..Len(frame.rows) |->
        LET p == PrevInGroup(frame.rows, i)
        IN  [frame.rows[i] EXCEPT !.vals = [c \in DOMAIN @ |->
                IF p = 0 \/ c \notin DOMAIN frame.rows[p].vals
                THEN @[c]
                ELSE fsub(@[c], frame.rows[p].vals[c])]]]]

\* df.columns.str.endswith(suffix), for the suffix "_drop": the marker the
\* join appended, or a name whose own last word is "drop"
endswith(name, suffix) ==
    /\ Len(name) > 0
    /\ \/ name[Len(name)] = suffix
       \/ Len(name) >= 2 /\ "_" \o name[Len(name)] = suffix

dropwithsuffix(frame, suffix) ==
    SelectCols(frame, {c \in Range(frame.cols) : ~endswith(c, suffix)})

dropextrapoints(frame, hw) ==
    LET pts_col_df == {c \in Range(frame.cols) : PAT_POINTS(c)}
        pts_col_hw == {c \in Range(hw.cols) : PAT_POINTS(c)}
        col_to_keep == pts_col_df \cap pts_col_hw
        col_to_drop == pts_col_df \ col_to_keep
    IN  SelectCols(frame, Range(frame.cols) \ col_to_drop)

\* left.set_index(KEY_COLS).join(right.set_index(KEY_COLS), rsuffix=...): a
\* left join on the key.  A column of both frames keeps its name and the
\* left frame's values; the right frame's copy gets the suffix.
join(left, right, rsuffix) ==
    LET rname(c) == IF c \in Range(left.cols) THEN Append(c, rsuffix) ELSE c
        matches(i) == SelectSeq(right.rows, LAMBDA r : r.key = left.rows[i].key)
        joined(l, r) ==
            [f \in DOMAIN l \cup DOMAIN r |->
                IF f = "vals"
                THEN [c \in DOMAIN l.vals \cup {rname(x) : x \in DOMAIN r.vals} |->
                         IF c \in DOMAIN l.vals THEN l.vals[c]
                         ELSE r.vals[CHOOSE x \in DOMAIN r.vals : rname(x) = c]]
                ELSE IF f \in DOMAIN l THEN l[f] ELSE r[f]]
    IN  [cols |-> left.cols \o [i \in 1..Len(right.cols) |-> rname(right.cols[i])],
         tcols |-> left.tcols \cup right.tcols,
         rows |-> Flatten([i \in 1..Len(left.rows) |->
                     IF matches(i) = <<>> THEN <<left.rows[i]>>
                     ELSE [j \in 1..Len(matches(i)) |->
                              joined(left.rows[i], matches(i)[j])]])]

\* (df['day'] - df['due_date']).astype('m8[D]'): whole days, rounded down
dayslate(row) == (row.day.ticks - row.due_date.ticks) \div TicksPerDay

\* The days_late column: missing in a row without a day
assigndayslate(frame) ==
    [cols |-> frame.cols,
     tcols |-> frame.tcols \cup {"days_late"},
     rows |-> [i \in 1..Len(frame.rows) |->
                 IF "day" \in DOMAIN frame.rows[i]
                 THEN [f \in DOMAIN frame.rows[i] \cup {"days_late"} |->
                          IF f = "days_late" THEN dayslate(frame.rows[i])
                          ELSE frame.rows[i][f]]
                 ELSE frame.rows[i]]]

\* The sum of the function f over the set S
RECURSIVE SumSet(_, _)
SumSet(S, f) ==
    IF S = {} THEN 0
    ELSE LET x == CHOOSE y \in S : TRUE
         IN  f[x] + SumSet(S \ {x}, f)

\* The sum of the doubles f[i], i in the set of integers S, added one after
\* the other in the order of i, from 0.0
RECURSIVE fsum(_, _)
fsum(S, f) ==
    IF S = {} THEN Zero
    ELSE LET last == CHOOSE i \in S : \A j \in S : j <= i
         IN  fadd(fsum(S \ {last}, f), f[last])

\* The total_(T) column: T the sum of the maxima in the names of the points
\* columns, the cell the sum of the row's points in the order of the columns
addtotal(frame) ==
    LET pts_col == {c \in Range(frame.cols) : PAT_POINTS(c)}
        at(row) == {n \in 1..Len(frame.cols) :
                       frame.cols[n] \in pts_col \cap DOMAIN row.vals}
        pts_tot == SumSet(pts_col, [c \in pts_col |-> matchpointstotal(c)])
        name == <<"total", PtsWord(pts_tot)>>
    IN  [frame EXCEPT
           !.cols = Append(@, name),
           !.rows = [i \in 1..Len(frame.rows) |->
               [frame.rows[i] EXCEPT !.vals =
                   [c \in DOMAIN @ \cup {name} |->
                       IF c = name
                       THEN fsum(at(frame.rows[i]),
                                 [n \in at(frame.rows[i]) |-> @[frame.cols[n]]])
                       ELSE @[c]]]]]

\* The exception read ends in, "" when it returns: the first file name
\* matchdatefromfilename fails on; TypeError when the days of the reports are
\* some with and some without zone (the sort by day compares them) or when
\* they are without zone and the due dates, in UTC, are subtracted from them
readraises(fp_seq, assignment_fp) ==
    LET res(i) == matchdatefromfilename(fp_seq[i].name)
        bad == {i \in 1..Len(fp_seq) : res(i).raised # ""}
    IN  IF bad # {} THEN res(CHOOSE i \in bad : \A j \in bad : i <= j).raised
        ELSE IF \E i, j \in 1..Len(fp_seq) : res(i).ts.aware # res(j).ts.aware
             THEN "TypeError"
        ELSE IF assignment_fp # None /\ \E i \in 1..Len(fp_seq) : ~res(i).ts.aware
             THEN "TypeError"
        ELSE ""

\* read, given the order the sort of the combined reports produced
read(fp_seq, assignment_fp, order) ==
    LET reports == readmanyreports(fp_seq, order)
    IN  IF assignment_fp # None
        THEN LET hw == readassignment(assignment_fp[1])
                 kept == dropextrapoints(reports, hw)
                 joined == sort_index(dropwithsuffix(join(hw, kept, DROP_SUFFIX),
                                                     DROP_SUFFIX))
             IN  addtotal(assigndayslate(groupdiff(joined)))
        ELSE addtotal(groupdiff(sort_index(reports)))

(***************************************************************************)
(* The penalizer, the finalizer and the summarizer.                        *)
(***************************************************************************)
\* df['days_late'].clip(0)
clip(d, lo) == IF d < lo THEN lo ELSE d

\* df[col] -= df['days_late'].clip(0) * pen * df[col], with pen = penalty / 100
deduct(v, days_late, penalty) ==
    LET pen == fdiv(float(penalty), float(100))
    IN  fsub(v, fmul(fmul(float(clip(days_late, 0)), pen), v))

\* A row without days_late (NaN) gets NaN in every points column
deductpoints(frame, penalty) ==
    MapRows(frame, [i \in 1..Len(frame.rows) |->
        LET row == frame.rows[i]
        IN  [row EXCEPT !.vals =
                [c \in {x \in DOMAIN @ : "days_late" \in DOMAIN row \/ ~PAT_POINTS(x)} |->
                    IF PAT_POINTS(c) THEN deduct(@[c], row.days_late, penalty)
                    ELSE @[c]]]])

\* scorefun, were the comparison strict
scorefun_strict(x, threshold) ==
    IF flt(float(threshold), x.total) THEN float(100) ELSE x.total

scorefun(x, threshold) ==
    IF fge(x.total, float(threshold)) THEN float(100) ELSE x.total

\* groupsum, were a key with an empty component left out as a missing one is
groupsum_dropna(frame) ==
    LET full == {i \in 1..Len(frame.rows) :
                    \A k \in Range(KEY_COLS) : frame.rows[i].key[k] # ""}
        keys == SortKeys({frame.rows[i].key : i \in full})
        cell(k, c) ==
            LET has == {i \in full : frame.rows[i].key = k /\ c \in DOMAIN frame.rows[i].vals}
            IN  fsum(has, [i \in has |-> frame.rows[i].vals[c]])
    IN  [cols |-> frame.cols,
         tcols |-> {},
         rows |-> [n \in 1..Len(keys) |->
                     [key |-> keys[n],
                      vals |-> [c \in Range(frame.cols) |-> cell(keys[n], c)]]]]

\* .drop([...]).groupby(KEY_COLS).sum(): one row a key, in key order, every
\* value column summed over the rows of the key in their order (a missing
\* cell counts 0).  A build that sums with a running compensation gives the
\* same double for up to two rows a key, and for any number when all rows
\* but one hold 0.
groupsum(frame) ==
    LET keys == SortKeys({frame.rows[i].key : i \in 1..Len(frame.rows)})
        rowsof(k) == {i \in 1..Len(frame.rows) : frame.rows[i].key = k}
        cell(k, c) ==
            LET has == {i \in rowsof(k) : c \in DOMAIN frame.rows[i].vals}
            IN  fsum(has, [i \in has |-> frame.rows[i].vals[c]])
    IN  [cols |-> frame.cols,
         tcols |-> {},
         rows |-> [n \in 1..Len(keys) |->
                     [key |-> keys[n],
                      vals |-> [c \in Range(frame.cols) |-> cell(keys[n], c)]]]]

finalgrade(frame, threshold) ==
    LET total_col == find(frame.cols, {c \in Range(frame.cols) : matchtotal_(c)})
        total_pts == matchpointstotal(total_col)
        summed == groupsum(frame)
        withtotal(row) ==
            [key |-> row.key, vals |-> row.vals,
             total |-> fmul(fdiv(row.vals[total_col], float(total_pts)), float(100))]
        withfinal(row) ==
            LET x == withtotal(row)
                final == scorefun(x, threshold)
            IN  [key |-> x.key, vals |-> x.vals, total |-> x.total,
                 final |-> final,
                 final_pts |-> fmul(fdiv(final, float(100)), float(total_pts))]
    IN  MapRows(summed, [i \in 1..Len(summed.rows) |-> withfinal(summed.rows[i])])

\* pandas.crosstab(index=keys, columns=days_late, values=total, aggfunc='sum',
\* margins=True).fillna(0); rows without days_late are left out
summarize(frame) ==
    LET total_col == find(frame.cols, {c \in Range(frame.cols) : matchtotal_(c)})
        rows == {i \in 1..Len(frame.rows) : "days_late" \in DOMAIN frame.rows[i]}
        keys == {frame.rows[i].key : i \in rows}
        days == {frame.rows[i].days_late : i \in rows}
        sumof(S) == fsum(S, [i \in S |-> frame.rows[i].vals[total_col]])
    IN  [index |-> SortKeys(keys),
         columns |-> days,
         cells |-> [k \in keys |-> [d \in days |->
                      sumof({i \in rows : /\ frame.rows[i].key = k
                                          /\ frame.rows[i].days_late = d})]],
         rowmargin |-> [k \in keys |-> sumof({i \in rows : frame.rows[i].key = k})],
         colmargin |-> [d \in days |-> sumof({i \in rows : frame.rows[i].days_late = d})],
         all |-> sumof(rows)]

(***************************************************************************)
(* The command lines of the model.                                         *)
(***************************************************************************)
HW1 == <<"HW1", "(3)">>
HW2 == <<"HW2", "(5)">>
HW3 == <<"HW3", "(2)">>
LabTotal == <<"Lab", "total", "(8)">>
TotalCol == <<"Total", "(8)">>
PercentGrade == <<"Percent", "grade">>
PointsEarned == <<"Points", "earned", "(out", "of", "8)">>

ReportCols == {<<HW1, HW2, LabTotal>>, <<HW1, HW2, PercentGrade, PointsEarned, TotalCol>>}

\* Two students; the cells school_email of the first and primary_email and
\* student_id of the second are empty in the files
Student1 == [last_name |-> "doe", first_name |-> "ann", primary_email |-> "ann@x",
             student_id |-> "7"]
Student2 == [last_name |-> "roe", first_name |-> "bob", school_email |-> "bob@u"]

\* The percentage in the cells of a row: <<p>>, or <<>> for empty cells
Early == <<<<50>>, <<>>>>

Late == <<<<100>>, <<50>>>>

\* The cells of a file are decimals, given in hundredths
RawVals(cols, cell) ==
    IF cell = <<>> THEN [c \in {} |-> 0] ELSE [c \in Range(cols) |-> 100 * cell[1]]

\* File names with a timestamp and a zone: the instants 1 and 4
ReportNames == {[timestamp |-> <<1>>, tz |-> "UTC"],
                [timestamp |-> <<3>>, tz |-> "Etc/GMT+12"]}

\* Two names of one instant, 2, told on the clocks of two zones
SameInstant == <<[timestamp |-> <<2>>, tz |-> "UTC"],
                 [timestamp |-> <<1>>, tz |-> "Etc/GMT+12"]>>

\* A file name with a timestamp and no zone
NaiveName == [timestamp |-> <<2>>]

\* File names matchdatefromfilename fails on: no timestamp, digits that are
\* no date, a zone dateutil does not know
BadNames == {[stem |-> "notes"],
             [timestamp |-> <<>>, tz |-> "UTC"],
             [timestamp |-> <<1>>, tz |-> "Nowhere"]}

ReportFile(name, cols, cells) ==
    [name |-> name, cols |-> cols,
     rows |-> <<[key |-> Student1, vals |-> RawVals(cols, cells[1])],
                [key |-> Student2, vals |-> RawVals(cols, cells[2])]>>]

ReportFiles(cols) ==
    {ReportFile(n, cols, c) : n \in ReportNames \cup {NaiveName}, c \in {Early, Late}}
        \cup {ReportFile(SameInstant[1], cols, Late), ReportFile(SameInstant[2], cols, Early)}

BadFiles(cols) == {[name |-> n, cols |-> cols, rows |-> <<>>] : n \in BadNames}

\* The report arguments: up to MaxReports files of different names, all with
\* a name matchdatefromfilename takes or the last one with a name it fails on
ReportArgs(cols) ==
    LET good(n) == {r \in [1..n -> ReportFiles(cols)] :
                       \A i, j \in 1..n : i # j => r[i].name # r[j].name}
    IN  UNION {good(n) : n \in 1..MaxReports}
        \cup UNION {{Append(r, f) : r \in good(n), f \in BadFiles(cols)} :
                       n \in 0..(MaxReports - 1)}

\* The rosters: the due date at the instant 0 or 3
RosterFile(cols, d) ==
    [cols |-> cols,
     rows |-> <<[key |-> Student1, due_date |-> d, vals |-> RawVals(cols, <<100>>)],
                [key |-> Student2, due_date |-> d, vals |-> RawVals(cols, <<100>>)]>>]

RosterFiles ==
    {RosterFile(<<HW1, HW2, PercentGrade, PointsEarned>>, 0),
     RosterFile(<<HW1, HW3, PercentGrade>>, 3)}

\* -F, -N and -P: threshold and penalty
Options == {<<DEFAULT_THRESHOLD, DEFAULT_PENALTY>>, <<DEFAULT_THRESHOLD, 30>>,
            <<NO_THRESHOLD, 100>>}

NoFrame == [cols |-> <<>>, tcols |-> {}, rows |-> <<>>]

\* A file argparse opened for writing: it exists and is empty
OpenedFile == [exists |-> TRUE, closed |-> FALSE, written |-> FALSE]

(***************************************************************************)
(* _main.                                                                  *)
(***************************************************************************)
Init ==
    /\ \E cols \in ReportCols :
         \E fps \in ReportArgs(cols) :
           \E hw \in {<<>>} \cup {<<f>> : f \in RosterFiles} :
             args = [reports_fp |-> fps, assignment_fp |-> hw,
                     threshold |-> DEFAULT_THRESHOLD, penalty |-> DEFAULT_PENALTY]
    /\ pc = "main"
    /\ tmp = <<>>
    /\ df_hw = NoFrame
    /\ df = NoFrame
    /\ prev = NoFrame
    /\ output = OpenedFile
    /\ output_summary = OpenedFile
    /\ error = ""

\* df = read(*args.reports_fp, assignment_fp=args.assignment_fp).  A file
\* name without a timestamp ends the process (sys.exit(1)); the exceptions of
\* read end _main.
Read ==
    /\ pc = "main"
    /\ LET raised == readraises(args.reports_fp, args.assignment_fp)
       IN  IF raised # ""
           THEN /\ pc' = IF raised = "SystemExit" THEN "exited" ELSE "crashed"
                /\ error' = raised
                /\ UNCHANGED <<tmp, df_hw, df, prev>>
           ELSE /\ \E order \in ReportOrders(args.reports_fp) :
                     df' = read(args.reports_fp, args.assignment_fp, order)
                /\ tmp' = [i \in 1..Len(args.reports_fp) |->
                              readonereport(args.reports_fp[i])]
                /\ df_hw' = IF args.assignment_fp # None
                            THEN readassignment(args.assignment_fp[1]) ELSE NoFrame
                /\ prev' = NoFrame
                /\ pc' = "read"
                /\ UNCHANGED error
    /\ UNCHANGED <<args, output, output_summary>>

\* len(args.reports_fp) > 1: summarize(df) reads df['days_late'], a column
\* read makes only with a roster
Summarize ==
    /\ pc = "read"
    /\ Len(args.reports_fp) > 1
    /\ IF "days_late" \in df.tcols
       THEN /\ output_summary' = [exists |-> TRUE, closed |-> FALSE, written |-> TRUE,
                                  content |-> summarize(df)]
            /\ pc' = "summarized"
            /\ UNCHANGED error
       ELSE /\ pc' = "crashed"
            /\ error' = "KeyError"
            /\ UNCHANGED output_summary
    /\ UNCHANGED <<args, tmp, df_hw, df, prev, output>>

\* one report: args.output_summary.close(), then os.delete, which the os
\* module does not have
CleanUp ==
    /\ pc = "read"
    /\ Len(args.reports_fp) = 1
    /\ output_summary' = [output_summary EXCEPT !.closed = TRUE]
    /\ pc' = "crashed"
    /\ error' = "AttributeError"
    /\ UNCHANGED <<args, tmp, df_hw, df, prev, output>>

Deduct ==
    /\ pc = "summarized"
    /\ IF args.assignment_fp # None
       THEN df' = deductpoints(df, args.penalty) /\ prev' = df
       ELSE UNCHANGED <<df, prev>>
    /\ pc' = "penalized"
    /\ UNCHANGED <<args, tmp, df_hw, output, output_summary, error>>

Final ==
    /\ pc = "penalized"
    /\ df' = finalgrade(df, args.threshold)
    /\ prev' = df
    /\ output' = [exists |-> TRUE, closed |-> FALSE, written |-> TRUE, content |-> df']
    /\ pc' = "done"
    /\ UNCHANGED <<args, tmp, df_hw, output_summary, error>>

Next == Read \/ Summarize \/ CleanUp \/ Deduct \/ Final

Spec == Init /\ [][Next]_vars

(***************************************************************************)
(* deductpoints and finalgrade called on their own: deductpoints(df,       *)
(* penalty) and finalgrade(df, threshold) for a frame df drawn from a      *)
(* bounded set of frames, finalgrade on the frame as it is or on what      *)
(* deductpoints made of it.  The frame has one points column, hw_(20), the *)
(* column total_(20), day, due_date and days_late, two rows of one student *)
(* and one row of another.                                                 *)
(***************************************************************************)
MaxLate == 3

HW == <<"hw", "(20)">>

LateDays == (0 - 1)..MaxLate

DueDate == [ticks |-> 2, aware |-> TRUE]

\* An instant on the day d days after the due date (d < 0: before it)
DayAt(d) == [ticks |-> DueDate.ticks + d * TicksPerDay + 1, aware |-> TRUE]

\* The doubles in the column hw_(20): 14, 20 and 13.98 in the first row, 0,
\* 14 and 0.02 in the second, 0, 19 and 20 in the third
FirstPoints == {float(14), float(20), parsecell(1398)}

MorePoints == {float(0), float(14), parsecell(2)}

OtherPoints == {float(0), float(19), float(20)}

StudentKey(s) == [k \in Range(KEY_COLS) |-> IF k \in DOMAIN s THEN s[k] ELSE ""]

\* The frame with the rows d[i] days late that hold v[i] points
TailFrame(d, v) ==
    LET row(s, i) == [key |-> StudentKey(s), vals |-> [c \in {HW} |-> v[i]],
                      day |-> DayAt(d[i]), due_date |-> DueDate]
        frame == [cols |-> <<HW>>,
                  tcols |-> {"day", "due_date"},
                  rows |-> <<row(Student1, 1), row(Student1, 2), row(Student2, 3)>>]
    IN  addtotal(assigndayslate(frame))

TailFrames ==
    {TailFrame(d, v) :
        d \in {x \in [1..3 -> LateDays] : x[1] < x[2]},
        v \in {x \in [1..3 -> FirstPoints \cup MorePoints \cup OtherPoints] :
                  /\ x[1] \in FirstPoints
                  /\ x[2] \in MorePoints
                  /\ x[3] \in OtherPoints}}

\* No file: the calls write none
NoFile == [exists |-> FALSE, closed |-> FALSE, written |-> FALSE]

InitTail ==
    /\ \E o \in Options : args = [threshold |-> o[1], penalty |-> o[2]]
    /\ df \in TailFrames
    /\ pc = "frame"
    /\ tmp = <<>>
    /\ df_hw = NoFrame
    /\ prev = NoFrame
    /\ output = NoFile
    /\ output_summary = NoFile
    /\ error = ""

\* df = deductpoints(df, penalty)
CallDeductpoints ==
    /\ pc = "frame"
    /\ df' = deductpoints(df, args.penalty)
    /\ prev' = df
    /\ pc' = "deducted"
    /\ UNCHANGED <<args, tmp, df_hw, output, output_summary, error>>

\* df = finalgrade(df, threshold)
CallFinalgrade ==
    /\ pc \in {"frame", "deducted"}
    /\ df' = finalgrade(df, args.threshold)
    /\ prev' = df
    /\ pc' = "graded"
    /\ UNCHANGED <<args, tmp, df_hw, output, output_summary, error>>

NextTail == CallDeductpoints \/ CallFinalgrade

SpecTail == InitTail /\ [][NextTail]_vars

(***************************************************************************)
(* What the claims speak of.                                               *)
(***************************************************************************)
NReports == Len(args.reports_fp)

HasRoster == args.assignment_fp # None

ValidNames == \A i \in 1..NReports : "timestamp" \in DOMAIN args.reports_fp[i].name

\* df is the frame read returned
AfterRead == tmp # <<>> /\ prev = NoFrame

\* df is the frame deductpoints returned, for the frame prev
Deducted == pc = "deducted" \/ (pc = "penalized" /\ prev # NoFrame)

\* df is the frame finalgrade returned, for the frame prev
Graded == pc \in {"graded", "done"}

\* A double above 0
positive(x) == x.m # <<>> /\ ~x.neg

\* The instant in the name of the i-th report file
ReportDay(i) == tmp[i].rows[1].day.ticks

DistinctDays == \A i, j \in 1..NReports : i # j => ReportDay(i) # ReportDay(j)

\* The j-th snapshot in the order of the days (the days being distinct)
NthSnapshot(j) ==
    CHOOSE i \in 1..NReports :
        Cardinality({o \in 1..NReports : ReportDay(o) < ReportDay(i)}) = j - 1

\* The student's cumulative value of column c in the i-th report file
Cumulative(i, k, c) ==
    LET r == CHOOSE r \in 1..Len(tmp[i].rows) : tmp[i].rows[r].key = k
    IN  tmp[i].rows[r].vals[c]

\* v1, v2 - v1, ..., vn - v(n-1) over the snapshots in the order of the days
Increment(j, k, c) ==
    IF j = 1 THEN Cumulative(NthSnapshot(1), k, c)
    ELSE fsub(Cumulative(NthSnapshot(j), k, c), Cumulative(NthSnapshot(j - 1), k, c))

RowsOf(frame, k) == SelectSeq(frame.rows, LAMBDA r : r.key = k)

KeysOf(frame) == {frame.rows[i].key : i \in 1..Len(frame.rows)}

EndsInPoints(c) == \E n \in PtsRange : c[Len(c)] = PtsWord(n)

PointsCols(frame) == {c \in Range(frame.cols) : EndsInPoints(c)}

\* The points columns of the reconciled frame: all but the synthesized total
Reconciled == {c \in PointsCols(df) : c[1] # "total"}

MaxOf(c) == CHOOSE n \in PtsRange : c[Len(c)] = PtsWord(n)

ReportPoints == UNION {PointsCols(tmp[i]) : i \in 1..Len(tmp)}

\* The maximum the points columns of a frame add up to
TotalPossible(frame) ==
    LET cs == {c \in PointsCols(frame) : c[1] # "total"}
    IN  SumSet(cs, [c \in cs |-> MaxOf(c)])

\* C1: a run whose report file names all carry a timestamp does not end in
\* an exception, whatever the number of reports and with or without a
\* roster, and once done it has written one row per student to the grades
\* file.
C1_RunsToCompletion ==
    ValidNames =>
        /\ pc # "crashed"
        /\ pc = "done" =>
              /\ output.written
              /\ Len(output.content.rows) = Cardinality(KeysOf(prev))

\* C2: at the end of a run given one report there is no by-day summary
\* file, and at the end of a run given more than one the summary is written.
C2_SummaryIffManyReports ==
    (ValidNames /\ pc \in {"done", "crashed"}) =>
        /\ NReports = 1 => ~output_summary.exists
        /\ NReports > 1 => output_summary.written

\* C3: without a roster and with snapshots of distinct days, the rows read
\* returns for a student are one per snapshot, in the order of the days,
\* and hold v1, v2 - v1, ..., vn - v(n-1) in every points column, whatever
\* the order of the report files on the command line.
C3_FirstDifferences ==
    (~HasRoster /\ AfterRead /\ DistinctDays) =>
        \A k \in KeysOf(tmp[1]) :
            LET rs == RowsOf(df, k)
            IN  /\ Len(rs) = NReports
                /\ \A j \in 1..Len(rs) :
                      /\ rs[j].day.ticks = ReportDay(NthSnapshot(j))
                      /\ \A c \in ReportPoints : rs[j].vals[c] = Increment(j, k, c)

\* C3 witness: two reports given latest first, and a student who earned
\* points on both days
C3_Witness ==
    /\ ~HasRoster /\ AfterRead /\ DistinctDays
    /\ NReports >= 2
    /\ ReportDay(1) > ReportDay(2)
    /\ \E k \in KeysOf(df), c \in ReportPoints :
          /\ positive(RowsOf(df, k)[1].vals[c])
          /\ positive(RowsOf(df, k)[2].vals[c])

\* C4: with a roster, every points value of the rows read returns is the
\* day's increment of the student's report values, never a roster value.
C4_PointsFromReports ==
    (HasRoster /\ pc = "read" /\ DistinctDays) =>
        \A k \in KeysOf(df) :
            \A j \in 1..Len(RowsOf(df, k)) :
                \A c \in Reconciled \cap ReportPoints :
                    RowsOf(df, k)[j].vals[c] = Increment(j, k, c)

\* C5: deductpoints leaves raw - raw * max(days_late, 0) * penalty / 100 in
\* every points column of every row (8 for 20 points, 3 days and 20%), and
\* the raw value when days_late <= 0.
C5_Deduction ==
    Deducted =>
        /\ Len(df.rows) = Len(prev.rows)
        /\ \A i \in 1..Len(prev.rows) : \A c \in PointsCols(prev) :
              LET raw == prev.rows[i].vals[c]
                  late == prev.rows[i].days_late
                  value == df.rows[i].vals[c]
                  off == fdiv(fmul(fmul(raw, float(late)), float(args.penalty)),
                              float(100))
              IN  /\ late > 0 => value = fsub(raw, off)
                  /\ late <= 0 => value = raw

\* C10: for a raw value >= 0 and a penalty in 0..100, the value deductpoints
\* leaves lies between 0 and the raw value.
C10_DeductionInRange ==
    (Deducted /\ args.penalty \in 0..100) =>
        \A i \in 1..Len(prev.rows) : \A c \in PointsCols(prev) :
            fge(prev.rows[i].vals[c], Zero) =>
                /\ fge(df.rows[i].vals[c], Zero)
                /\ fge(prev.rows[i].vals[c], df.rows[i].vals[c])

\* C6: in every row of the grades, final is 100 when total >= threshold and
\* total otherwise, final_pts is final / 100 * total_possible, and with the
\* threshold 100 final equals total for a total in 0..100.
C6_Threshold ==
    Graded =>
        \A i \in 1..Len(df.rows) :
            LET r == df.rows[i]
                atleast == fge(r.total, float(args.threshold))
            IN  /\ atleast => r.final = float(100)
                /\ ~atleast => r.final = r.total
                /\ r.final_pts = fmul(fdiv(r.final, float(100)),
                                      float(TotalPossible(prev)))
                /\ (/\ args.threshold = 100
                    /\ fge(r.total, Zero)
                    /\ fge(float(100), r.total))
                      => r.final = r.total

\* C6 witness: with the threshold 70, a student whose total is exactly 70
\* gets 100 and another, below it, keeps the total
C6_Witness ==
    /\ Graded /\ args.threshold = 70
    /\ \E i, j \in 1..Len(df.rows) :
          /\ df.rows[i].total = float(70)
          /\ df.rows[i].final = float(100)
          /\ positive(df.rows[j].total)
          /\ flt(df.rows[j].total, float(70))
          /\ df.rows[j].final = df.rows[j].total

\* C6 witness, the examples 69.9 and 95: 13.98 of 20 points, 69.9, stay as
\* they are and 19 of 20, 95, become 100
C6_WitnessExamples ==
    /\ Graded /\ args.threshold = 70
    /\ \E i, j \in 1..Len(df.rows) :
          /\ df.rows[i].total = parsecell(6990)
          /\ df.rows[i].final = df.rows[i].total
          /\ df.rows[j].total = float(95)
          /\ df.rows[j].final = float(100)

\* C7: the grades hold one row for each key of the finalizer's input, none
\* lost, and the row's points are the sums of the key's rows.
C7_OneRowPerKey ==
    Graded =>
        /\ KeysOf(df) = KeysOf(prev)
        /\ Len(df.rows) = Cardinality(KeysOf(prev))
        /\ \A i \in 1..Len(df.rows) : \A c \in PointsCols(prev) :
              LET mine == {j \in 1..Len(prev.rows) : prev.rows[j].key = df.rows[i].key}
              IN  df.rows[i].vals[c] = fsum(mine, [j \in mine |-> prev.rows[j].vals[c]])

\* C7 witness: a key with an empty component has rows of two days, with
\* points, and the grades hold its one row
C7_Witness ==
    /\ Graded
    /\ \E i, j \in 1..Len(prev.rows) :
          /\ prev.rows[i].key = prev.rows[j].key
          /\ prev.rows[i].day # prev.rows[j].day
          /\ prev.rows[i].key.school_email = ""
          /\ \E c \in PointsCols(prev) :
                positive(prev.rows[i].vals[c]) /\ positive(prev.rows[j].vals[c])
          /\ Len(RowsOf(df, prev.rows[i].key)) = 1

\* C8: a frame of the report loader has no column with "total" in its name
\* and no informational column: only points columns remain.
C8_OnlyPointsColumns ==
    AfterRead =>
        \A i \in 1..Len(tmp) : \A c \in Range(tmp[i].cols) :
            /\ \A w \in Range(c) : w # "total"
            /\ ~(c[1] = "points" /\ c[2] = "earned")
            /\ ~(c[1] = "percent" /\ c[2] = "grade")
            /\ EndsInPoints(c)

\* C9: with a roster, the points columns of the reconciled frame are the
\* points columns that the roster and the reports share.
C9_Intersection ==
    (HasRoster /\ pc = "read") =>
        Reconciled = PointsCols(df_hw) \cap ReportPoints

====
